---- MODULE Spec2Model ----
(***************************************************************************)
(* AST assembly layer of parserlib (include/ast.hpp): ast_node,            *)
(* ast_container, ast_member, ast_ptr<T>, ast<T>::_parse_proc and parse.   *)
(*                                                                         *)
(* The heap is a finite set of node addresses.  A node keeps its runtime   *)
(* type, whether it is still allocated, the m_ptr of each of its ast_ptr   *)
(* fields and its m_members vector.  A member (an ast_ptr field of a       *)
(* container) is identified by <<address of its container, field index>>.  *)
(* The heap keeps the contents of deleted nodes, as freed memory does, so  *)
(* that a read through a dangling pointer reads stale data.                *)
(***************************************************************************)
EXTENDS Integers, Sequences, FiniteSets, TLC

\* number of heap addresses the model allocates
MaxNodes == 10

\* number of calls the owner of a tree makes on it in one run
MaxCalls == 3

NodeIds == 1..MaxNodes

\* the null pointer
NULL == 0

\* the node types of the grammar under test: the template arguments T of
\* ast_ptr<T> and ast<T>
Types == {"Leaf", "Un", "Sub", "Pair", "Tri"}

\* the ast_ptr fields each node type declares, in declaration order, each
\* given by its element type T
Fields(T) ==
    CASE T = "Leaf" -> <<>>
      [] T = "Un"   -> <<"Leaf">>
      [] T = "Sub"  -> <<"Leaf">>
      [] T = "Pair" -> <<"Un", "Leaf">>
      [] T = "Tri"  -> <<"Leaf", "Leaf", "Leaf">>
      [] OTHER      -> <<>>

\* the fields a node type's default constructor initialises with a new
\* node, field(new D), each given by D; "" for a field left null
Defaults(T) ==
    CASE T = "Tri" -> <<"", "Leaf", "">>
      [] OTHER     -> [i \in 1..Len(Fields(T)) |-> ""]

\* class Sub : public Un, which adds no field; every other type derives
\* from ast_container
DerivesFrom(D, B) == D = B \/ (D = "Sub" /\ B = "Un")

VARIABLES
    type,       \* runtime type of each address ("none": never allocated)
    alive,      \* allocated and not yet deleted
    ptr,        \* ptr[n][i]: m_ptr of the i-th ast_ptr field of node n
    members,    \* members[n]: ast_container::m_members of node n
    nextId,     \* next address operator new returns
    st,         \* the ast_stack of the running parse
    registry,   \* the containers under construction, innermost last
    ctl,        \* constructor calls in progress, innermost last
    op,         \* the library call in progress, or the last one made
    ev,         \* what the last step did
    held,       \* nodes the caller of the library owns
    calls,      \* number of calls the owner has made
    status,     \* "run", "error" (std::logic_error in flight), "abort"
    parse       \* the driver: its state and what it returned

vars == <<type, alive, ptr, members, nextId, st, registry, ctl, op, ev,
          held, calls, status, parse>>

heapvars == <<type, alive, ptr, members, nextId>>

NoMember == <<0, 0>>

NoEv == [kind |-> "none", m |-> NoMember, node |-> NULL, before |-> <<>>,
         old |-> NULL, raw |-> NULL, outcome |-> "none"]

NoOp == [kind |-> "none", phase |-> "done", obj |-> NULL, it |-> 0,
         p |-> NoMember, q |-> NoMember, src |-> NULL, clone |-> NULL,
         st0 |-> <<>>, f0 |-> <<>>]

NoParse == [state |-> "idle", matched |-> FALSE,
            result |-> NULL, errors |-> FALSE, final |-> <<>>]

Init ==
    /\ type     = [n \in NodeIds |-> "none"]
    /\ alive    = [n \in NodeIds |-> FALSE]
    /\ ptr      = [n \in NodeIds |-> <<>>]
    /\ members  = [n \in NodeIds |-> <<>>]
    /\ nextId   = 1
    /\ st       = <<>>
    /\ registry = <<>>
    /\ ctl      = <<>>
    /\ op       = NoOp
    /\ ev       = NoEv
    /\ held     = {}
    /\ calls    = 0
    /\ status   = "run"
    /\ parse    = NoParse

----------------------------------------------------------------------------
\* helpers over sequences and the heap

Top(s) == s[Len(s)]

Pop(s) == SubSeq(s, 1, Len(s) - 1)

\* element type T of the ast_ptr<T> member m
FieldType(m) == Fields(type[m[1]])[m[2]]

\* the nodes reachable from the set S through the m_ptr of their fields
RECURSIVE Closure(_)
Closure(S) ==
    LET T == S \cup (UNION {{ptr[x][i] : i \in 1..Len(ptr[x])} : x \in S} \ {NULL})
    IN  IF T = S THEN S ELSE Closure(T)

Reach(n) == IF n = NULL THEN {} ELSE Closure({n})

\* the library is between calls
Idle == status = "run" /\ op.phase = "done" /\ ctl = <<>>

----------------------------------------------------------------------------
\* ast_container and ast_member

\* ast_container::ast_container(), ast_container(const ast_container &):
\* the container under construction becomes this one
ast_container_ctor(reg, n) == Append(reg, n)

\* a bug: the registry is one pointer that is never restored
ast_container_done_kept(reg) == reg

\* the container's fields are all constructed: the container that was under
\* construction before is active again
ast_container_done(reg) == Pop(reg)

\* ast_member::_init: the member is appended to the m_members of the
\* container under construction
_init(mem, reg, m) == [mem EXCEPT ![Top(reg)] = Append(@, m)]

\* a bug: the constructor does not register the member
ast_member_ctor_silent(mem, reg, m) == mem

\* a bug: the constructor registers the member twice
ast_member_ctor_twice(mem, reg, m) == _init(_init(mem, reg, m), reg, m)

\* ast_member::ast_member(), ast_member(const ast_member &)
ast_member_ctor(mem, reg, m) == _init(mem, reg, m)

\* a bug: the old pointee is not deleted
delete_none(al, n) == al

\* delete m_ptr: ~T runs ~ast_ptr on every field, which deletes its pointee
delete(al, n) == [x \in NodeIds |-> al[x] /\ x \notin Reach(n)]

----------------------------------------------------------------------------
\* operator new T followed by the entry of T's constructor: the base
\* class ast_container is constructed first, the fields follow one by one
New(al, n, T, src) ==
    /\ type' = [type EXCEPT ![n] = T]
    /\ alive' = [al EXCEPT ![n] = TRUE]
    /\ nextId' = nextId + 1
    /\ registry' = ast_container_ctor(registry, n)
    /\ ctl' = Append(ctl, [node |-> n, src |-> src, next |-> 1, arg |-> FALSE])

\* the base class of a new member is constructed: ast_member() registers
\* it, whatever constructor of ast_ptr runs
MemberEv(m) ==
    [NoEv EXCEPT !.kind = "member_ctor", !.m = m, !.node = Top(registry)]

\* ast_ptr(T *obj = 0) : m_ptr(obj)
ast_ptr_ctor(obj) == obj

\* a bug: the copy shares the pointee of its source
ast_ptr_copy_ctor_alias(s, fresh) == s

\* ast_ptr(const ast_ptr<T> &src) : m_ptr(src.m_ptr ? new T(*src.m_ptr) : 0)
\* s is src.m_ptr, fresh the address operator new returns
ast_ptr_copy_ctor(s, fresh) == IF s # NULL THEN fresh ELSE NULL

\* the constructor call on top of ctl has a field left to construct
FieldPending ==
    /\ status = "run"
    /\ ctl # <<>>
    /\ Top(ctl).next <= Len(Fields(type[Top(ctl).node]))

\* T() constructs the next field: ast_ptr() after ast_member()
FieldCtor ==
    /\ FieldPending
    /\ Top(ctl).src = NULL
    /\ Defaults(type[Top(ctl).node])[Top(ctl).next] = ""
    /\ LET f == Top(ctl)
           m == <<f.node, f.next>>
       IN  /\ members' = ast_member_ctor(members, registry, m)
           /\ ptr' = [ptr EXCEPT ![f.node] = Append(@, ast_ptr_ctor(NULL))]
           /\ ctl' = [ctl EXCEPT ![Len(ctl)].next = @ + 1]
           /\ ev' = MemberEv(m)
    /\ UNCHANGED <<type, alive, nextId, st, registry, op, held, status, parse, calls>>

\* T() evaluates the argument of field(new D) before the field's
\* constructor runs
FieldInitArg ==
    /\ FieldPending
    /\ Top(ctl).src = NULL
    /\ Defaults(type[Top(ctl).node])[Top(ctl).next] # ""
    /\ type' = [type EXCEPT ![nextId] =
                    Defaults(type[Top(ctl).node])[Top(ctl).next]]
    /\ alive' = [alive EXCEPT ![nextId] = TRUE]
    /\ nextId' = nextId + 1
    /\ registry' = ast_container_ctor(registry, nextId)
    /\ ctl' = Append(ctl, [node |-> nextId, src |-> NULL, next |-> 1,
                           arg |-> TRUE])
    /\ ev' = [NoEv EXCEPT !.kind = "new", !.node = nextId]
    /\ UNCHANGED <<ptr, members, st, op, held, status, parse, calls>>

\* reading an object that has been deleted is undefined: the read returns
\* the stale contents, or the program crashes
ReadOutcomes(n) == IF alive[n] THEN {"read"} ELSE {"read", "crash"}

\* T(const T &) copy-constructs the next field from the same field of the
\* source: ast_member() registers it, then m_ptr is initialised, by a clone
\* of the source's pointee when it has one
FieldCopyCtor ==
    /\ FieldPending
    /\ Top(ctl).src # NULL
    /\ LET f == Top(ctl)
           m == <<f.node, f.next>>
           s == ptr[f.src][f.next]
           r == ast_ptr_copy_ctor(s, nextId)
       IN  \E o \in ReadOutcomes(f.src) :
             IF o = "crash"
             THEN /\ status' = "abort"
                  /\ ev' = NoEv
                  /\ UNCHANGED <<heapvars, registry, ctl>>
             ELSE /\ members' = ast_member_ctor(members, registry, m)
                  /\ ev' = MemberEv(m)
                  /\ status' = status
                  /\ IF r = nextId /\ s # NULL
                     THEN /\ New(alive, nextId, FieldType(m), s)
                          /\ ptr' = ptr
                     ELSE /\ ptr' = [ptr EXCEPT ![f.node] = Append(@, r)]
                          /\ ctl' = [ctl EXCEPT ![Len(ctl)].next = @ + 1]
                          /\ UNCHANGED <<type, alive, nextId, registry>>
    /\ UNCHANGED <<st, op, held, parse, calls>>

\* the constructor call on top of ctl has constructed all its fields
CtorComplete ==
    /\ status = "run"
    /\ ctl # <<>>
    /\ Top(ctl).next > Len(Fields(type[Top(ctl).node]))

\* new D returns and ast_ptr(T *obj) constructs the field: ast_member()
\* registers it and m_ptr takes the node
CtorReturnArg ==
    /\ CtorComplete
    /\ Len(ctl) >= 2
    /\ Top(ctl).arg
    /\ LET f == Top(ctl)
           g == ctl[Len(ctl) - 1]
           m == <<g.node, g.next>>
       IN  /\ registry' = ast_container_done(registry)
           /\ members' = ast_member_ctor(members, registry', m)
           /\ ptr' = [ptr EXCEPT ![g.node] = Append(@, ast_ptr_ctor(f.node))]
           /\ ctl' = [Pop(ctl) EXCEPT ![Len(ctl) - 1].next = @ + 1]
           /\ ev' = [NoEv EXCEPT !.kind = "member_ctor", !.m = m,
                                 !.node = Top(registry'), !.raw = f.node]
    /\ UNCHANGED <<type, alive, nextId, st, op, held, status, parse, calls>>

\* new T(*src.m_ptr) returns into the initialiser of the m_ptr it is for
CtorReturn ==
    /\ CtorComplete
    /\ Len(ctl) >= 2
    /\ ~Top(ctl).arg
    /\ LET f == Top(ctl)
           g == ctl[Len(ctl) - 1]
       IN  /\ registry' = ast_container_done(registry)
           /\ ptr' = [ptr EXCEPT ![g.node] = Append(@, f.node)]
           /\ ctl' = [Pop(ctl) EXCEPT ![Len(ctl) - 1].next = @ + 1]
           /\ ev' = [NoEv EXCEPT !.kind = "ctor_done", !.node = f.node]
    /\ UNCHANGED <<type, alive, members, nextId, st, op, held, status, parse, calls>>

----------------------------------------------------------------------------
\* ast_ptr<T>::construct(ast_stack &st)

\* a bug: the node is taken from the wrong end of the stack
back_front(s) == s[1]

\* st.back()
back(s) == s[Len(s)]

\* st.pop_back()
pop_back(s) == SubSeq(s, 1, Len(s) - 1)

\* a bug: the cast is not checked
dynamic_cast_unchecked(T, node) == node

\* dynamic_cast<T *>(node): the node when its runtime type is T or derives
\* from T, null otherwise
dynamic_cast(T, node) == IF DerivesFrom(type[node], T) THEN node ELSE NULL

\* a bug: the node is popped before its type is checked
stack_at_throw_popped(s) == pop_back(s)

\* the stack when std::logic_error is thrown: the throw comes before
\* st.pop_back()
stack_at_throw(s) == s

\* a bug: the accepted node stays on the stack
stack_after_claim_kept(s) == s

\* the stack when the node is accepted
stack_after_claim(s) == pop_back(s)

\* a bug: the member does not take the node
claimed_ptr_none(obj) == NULL

\* m_ptr after the claim: the node itself
claimed_ptr(obj) == obj

ClaimEv(m, outcome) ==
    [NoEv EXCEPT !.kind = "claim", !.m = m, !.before = st,
                 !.old = ptr[m[1]][m[2]], !.outcome = outcome]

\* the whole of ast_ptr<T>::construct for the member m.  On an empty stack
\* assert(!st.empty()) aborts; compiled with NDEBUG, st.back() is undefined
\* and the cast of what it returns crashes or fails.
ast_ptr_construct(m) ==
    IF st = <<>>
    THEN \E o \in {"abort", "error"} :
            /\ status' = o
            /\ ev' = ClaimEv(m, o)
            /\ UNCHANGED <<st, alive, ptr>>
    ELSE LET node == back(st)
             obj == dynamic_cast(FieldType(m), node)
         IN  IF obj = NULL
             THEN /\ status' = "error"
                  /\ st' = stack_at_throw(st)
                  /\ ev' = ClaimEv(m, "error")
                  /\ UNCHANGED <<alive, ptr>>
             ELSE /\ st' = stack_after_claim(st)
                  /\ alive' = delete(alive, ptr[m[1]][m[2]])
                  /\ ptr' = [ptr EXCEPT ![m[1]][m[2]] = claimed_ptr(obj)]
                  /\ ev' = ClaimEv(m, "ok")
                  /\ status' = status

----------------------------------------------------------------------------
\* ast_container::construct and ast<T>::_parse_proc

\* ast_container::construct asks the members in reverse order of m_members
construct_order(ms) == [k \in 1..Len(ms) |-> ms[Len(ms) + 1 - k]]

\* a bug: the node replaces the top of the stack
push_back_over(s, obj) == IF s = <<>> THEN <<obj>> ELSE [s EXCEPT ![Len(s)] = obj]

\* a bug: the node is not pushed
push_back_dropped(s, obj) == s

\* st->push_back(obj)
push_back(s, obj) == Append(s, obj)

\* T *obj = new T
ParseProcNew(T) ==
    /\ Idle
    /\ parse.state = "running"
    /\ nextId + Cardinality({i \in 1..Len(Fields(T)) : Defaults(T)[i] # ""})
         <= MaxNodes
    /\ New(alive, nextId, T, NULL)
    /\ op' = [NoOp EXCEPT !.kind = "parse_proc", !.phase = "new",
                          !.obj = nextId, !.st0 = st]
    /\ ev' = [NoEv EXCEPT !.kind = "new", !.node = nextId]
    /\ UNCHANGED <<ptr, members, st, held, status, parse, calls>>

\* new T returns; obj->construct(b, e, *st) starts
ParseProcConstructed ==
    /\ CtorComplete
    /\ Len(ctl) = 1
    /\ op.kind = "parse_proc" /\ op.phase = "new"
    /\ registry' = ast_container_done(registry)
    /\ ctl' = <<>>
    /\ op' = [op EXCEPT !.phase = "construct", !.it = 1,
                        !.f0 = ptr[op.obj]]
    /\ ev' = [NoEv EXCEPT !.kind = "ctor_done", !.node = op.obj]
    /\ UNCHANGED <<heapvars, st, held, status, parse, calls>>

\* one turn of the loop of ast_container::construct
ParseProcClaim ==
    /\ status = "run"
    /\ op.kind = "parse_proc" /\ op.phase = "construct"
    /\ op.it <= Len(members[op.obj])
    /\ ast_ptr_construct(construct_order(members[op.obj])[op.it])
    /\ op' = [op EXCEPT !.it = IF status' = "run" THEN @ + 1 ELSE @]
    /\ UNCHANGED <<type, members, nextId, registry, ctl, held, parse, calls>>

\* the loop is over; st->push_back(obj)
ParseProcPush ==
    /\ status = "run"
    /\ op.kind = "parse_proc" /\ op.phase = "construct"
    /\ op.it > Len(members[op.obj])
    /\ st' = push_back(st, op.obj)
    /\ op' = [op EXCEPT !.phase = "done"]
    /\ ev' = [NoEv EXCEPT !.kind = "push", !.node = op.obj]
    /\ UNCHANGED <<heapvars, registry, ctl, held, status, parse, calls>>

\* std::logic_error leaves _parse_proc: the function has no handler, so
\* its frame is unwound and the local pointer obj is dropped, the node it
\* points to neither deleted nor pushed
ParseProcUnwind ==
    /\ status = "error"
    /\ op.kind = "parse_proc" /\ op.phase = "construct"
    /\ op' = [op EXCEPT !.phase = "unwound"]
    /\ ev' = [NoEv EXCEPT !.kind = "unwind", !.node = op.obj]
    /\ UNCHANGED <<heapvars, st, registry, ctl, held, status, parse, calls>>

----------------------------------------------------------------------------
\* parse(i, g, ws, el)

\* the driver starts with an empty ast_stack
ParseBegin ==
    /\ Idle
    /\ parse.state = "idle"
    /\ st' = <<>>
    /\ parse' = [NoParse EXCEPT !.state = "running"]
    /\ ev' = NoEv
    /\ UNCHANGED <<heapvars, registry, ctl, op, held, status, calls>>

\* a bug: the driver returns nothing
parse_result_none(matched, s) == NULL

\* a bug: the driver returns the node of the stack whether the root rule
\* matched or not
parse_result_unmatched(matched, s) == IF Len(s) = 1 THEN s[1] ELSE NULL

\* what parse returns: the one node of the stack when the root rule
\* matched, null otherwise
parse_result(matched, s) == IF matched /\ Len(s) = 1 THEN s[1] ELSE NULL

\* the grammar engine is done: the root rule matched or it did not.  A
\* failed match returns null and leaves its errors in the list; a match
\* returns the one node of the stack, and any other number of nodes is a
\* wiring error of the grammar.
ParseEnd(matched) ==
    /\ Idle
    /\ parse.state = "running"
    /\ LET ok == matched /\ Len(st) = 1
       IN  /\ parse' = [parse EXCEPT !.state = "done", !.matched = matched,
                           !.result = parse_result(matched, st),
                           !.errors = ~matched, !.final = st]
           /\ held' = IF ok THEN held \cup {st[1]} ELSE held
           /\ status' = IF matched /\ ~ok THEN "abort" ELSE status
    /\ st' = <<>>
    /\ ev' = NoEv
    /\ UNCHANGED <<heapvars, registry, ctl, op, calls>>

----------------------------------------------------------------------------
\* calls the owner of a tree makes on it

\* the live nodes of the trees the caller owns
Owned == {n \in UNION {Reach(h) : h \in held} : alive[n]}

\* the ast_ptr fields of those nodes
OwnedMembers == UNION {{<<n, i>> : i \in 1..Len(ptr[n])} : n \in Owned}

\* the owner's code runs between the calls of parse
OwnerTurn == Idle /\ parse.state # "running" /\ calls < MaxCalls

\* T c(*n): the implicit copy constructor of a node type
CopyNew ==
    /\ OwnerTurn
    /\ \E n \in held :
        /\ alive[n]
        /\ nextId + Cardinality(Reach(n)) - 1 <= MaxNodes
        /\ New(alive, nextId, type[n], n)
        /\ op' = [NoOp EXCEPT !.kind = "copy", !.phase = "new",
                              !.obj = nextId, !.src = n]
        /\ ev' = [NoEv EXCEPT !.kind = "new", !.node = nextId]
    /\ calls' = calls + 1
    /\ UNCHANGED <<ptr, members, st, held, status, parse>>

\* the copy is complete and belongs to the caller
CopyDone ==
    /\ CtorComplete
    /\ Len(ctl) = 1
    /\ op.kind = "copy" /\ op.phase = "new"
    /\ registry' = ast_container_done(registry)
    /\ ctl' = <<>>
    /\ held' = held \cup {op.obj}
    /\ op' = [op EXCEPT !.phase = "done"]
    /\ ev' = [NoEv EXCEPT !.kind = "ctor_done", !.node = op.obj]
    /\ UNCHANGED <<heapvars, st, status, parse, calls>>

\* a bug: the assignment stores the pointer it is given
ast_ptr_assign_alias(s, fresh) == s

\* ast_ptr<T>::operator=(const ast_ptr<T> &), operator=(const T *):
\* m_ptr = s ? new T(*s) : 0, with s the source pointer and fresh the
\* address operator new returns
ast_ptr_assign(s, fresh) == IF s # NULL THEN fresh ELSE NULL

\* a bug: the assignment copies the member vector of its source
ast_container_assign_members(mem, dst, src) == [mem EXCEPT ![dst] = mem[src]]

\* ast_container::operator=: the members are not copied
ast_container_assign(mem, dst, src) == mem

\* the body of both assignment operators of the member p: delete m_ptr,
\* then m_ptr = s ? new T(*s) : 0.  holder is the object the source pointer
\* is read from after the delete (NULL: an argument passed by value).  done
\* is the operation when no clone is needed, cloning when one is.
AssignBody(p, s, holder, done, cloning) ==
    LET old == ptr[p[1]][p[2]]
        al == delete(alive, old)
        v == ast_ptr_assign(s, nextId)
        stale == (holder # NULL /\ ~al[holder]) \/ (s # NULL /\ ~al[s])
    IN  \E o \in (IF stale THEN {"read", "crash"} ELSE {"read"}) :
          IF o = "crash"
          THEN /\ status' = "abort"
               /\ alive' = al
               /\ op' = cloning
               /\ ev' = [NoEv EXCEPT !.kind = "assign", !.m = p, !.old = old,
                                     !.outcome = "abort"]
               /\ UNCHANGED <<type, ptr, nextId, registry, ctl>>
          ELSE /\ status' = status
               /\ ev' = [NoEv EXCEPT !.kind = "assign", !.m = p, !.old = old,
                                     !.node = s, !.outcome = "ok"]
               /\ IF v = nextId /\ s # NULL
                  THEN /\ New(al, nextId, FieldType(p), s)
                       /\ ptr' = ptr
                       /\ op' = [cloning EXCEPT !.clone = nextId]
                  ELSE /\ alive' = al
                       /\ ptr' = [ptr EXCEPT ![p[1]][p[2]] = v]
                       /\ op' = done
                       /\ UNCHANGED <<type, nextId, registry, ctl>>

\* p = q
Assign ==
    /\ OwnerTurn
    /\ \E p \in OwnedMembers : \E q \in OwnedMembers :
        /\ FieldType(p) = FieldType(q)
        /\ nextId + Cardinality(Reach(ptr[q[1]][q[2]])) - 1 <= MaxNodes
        /\ LET o == [NoOp EXCEPT !.kind = "assign", !.p = p, !.q = q,
                                 !.obj = q[1], !.src = ptr[q[1]][q[2]]]
           IN  AssignBody(p, ptr[q[1]][q[2]], q[1], o,
                          [o EXCEPT !.phase = "new"])
    /\ calls' = calls + 1
    /\ UNCHANGED <<members, st, held, parse>>

\* p = obj, obj a T * or null
AssignRaw ==
    /\ OwnerTurn
    /\ \E p \in OwnedMembers : \E obj \in Owned \cup {NULL} :
        /\ obj # NULL => DerivesFrom(type[obj], FieldType(p))
        /\ nextId + Cardinality(Reach(obj)) - 1 <= MaxNodes
        /\ LET o == [NoOp EXCEPT !.kind = "assign_raw", !.p = p, !.src = obj]
           IN  AssignBody(p, obj, NULL, o, [o EXCEPT !.phase = "new"])
    /\ calls' = calls + 1
    /\ UNCHANGED <<members, st, held, parse>>

\* *a = *b: the implicit assignment operator of a node type assigns the
\* base class ast_container, then the fields one by one
CAssignBegin ==
    /\ OwnerTurn
    /\ \E a \in Owned : \E b \in Owned :
        /\ type[a] = type[b]
        /\ Fields(type[a]) # <<>>
        /\ nextId + Cardinality(Reach(b)) - 2 <= MaxNodes
        /\ members' = ast_container_assign(members, a, b)
        /\ op' = [NoOp EXCEPT !.kind = "cassign", !.phase = "fields",
                              !.obj = a, !.src = b, !.it = 1]
        /\ ev' = [NoEv EXCEPT !.kind = "cassign", !.node = a]
    /\ calls' = calls + 1
    /\ UNCHANGED <<type, alive, ptr, nextId, st, registry, ctl, held, status,
                   parse>>

\* the next field of *a is assigned from the same field of *b
CAssignField ==
    /\ status = "run"
    /\ op.kind = "cassign" /\ op.phase = "fields"
    /\ LET p == <<op.obj, op.it>>
           last == op.it = Len(Fields(type[op.obj]))
           o == [op EXCEPT !.p = p, !.it = @ + 1,
                           !.phase = IF last THEN "done" ELSE "fields"]
       IN  AssignBody(p, ptr[op.src][op.it], op.src, o,
                      [op EXCEPT !.p = p, !.phase = "new"])
    /\ UNCHANGED <<members, st, held, parse, calls>>

\* new T(*s) returns and m_ptr takes the clone
AssignDone ==
    /\ CtorComplete
    /\ Len(ctl) = 1
    /\ op.kind \in {"assign", "assign_raw", "cassign"} /\ op.phase = "new"
    /\ registry' = ast_container_done(registry)
    /\ ctl' = <<>>
    /\ ptr' = [ptr EXCEPT ![op.p[1]][op.p[2]] = op.clone]
    /\ op' = IF op.kind = "cassign"
             THEN [op EXCEPT !.it = @ + 1,
                      !.phase = IF op.it = Len(Fields(type[op.obj]))
                                THEN "done" ELSE "fields"]
             ELSE [op EXCEPT !.phase = "done"]
    /\ ev' = [NoEv EXCEPT !.kind = "ctor_done", !.node = op.clone]
    /\ UNCHANGED <<type, alive, members, nextId, st, held, status, parse, calls>>

----------------------------------------------------------------------------
Next ==
    \/ ParseBegin
    \/ \E T \in Types : ParseProcNew(T)
    \/ FieldCtor
    \/ FieldInitArg
    \/ FieldCopyCtor
    \/ CtorReturnArg
    \/ CtorReturn
    \/ ParseProcConstructed
    \/ ParseProcClaim
    \/ ParseProcPush
    \/ ParseProcUnwind
    \/ \E matched \in BOOLEAN : ParseEnd(matched)
    \/ CopyNew
    \/ CopyDone
    \/ Assign
    \/ AssignRaw
    \/ CAssignBegin
    \/ CAssignField
    \/ AssignDone

Spec == Init /\ [][Next]_vars

----------------------------------------------------------------------------
\* properties

\* number of fields of the node n
NumFields(n) == Len(Fields(type[n]))

\* C1. Order correctness: when the callback of a node with N fields has
\* reconstructed it, the i-th declared field owns the i-th of the N nodes
\* that were on top of the stack, counted from the bottom, for every N.
C1_OrderCorrectness ==
    (op.kind = "parse_proc" /\ op.phase = "done") =>
        LET N == NumFields(op.obj)
            S == Len(op.st0)
        IN  /\ S >= N
            /\ \A i \in 1..N : ptr[op.obj][i] = op.st0[S - N + i]

\* a node with three fields has been reconstructed from three stack nodes
C1_Witness ==
    /\ op.kind = "parse_proc" /\ op.phase = "done"
    /\ NumFields(op.obj) = 3
    /\ Len(op.st0) > 3

\* C2. Stack discipline: right after the callback of a node with N fields
\* has pushed it, the stack is the S - N bottom nodes it had before, in the
\* same order, with the new node on top: its size is S - N + 1.
C2_StackDiscipline ==
    (op.kind = "parse_proc" /\ op.phase = "done" /\ ev.kind = "push") =>
        LET N == NumFields(op.obj)
            S == Len(op.st0)
        IN  /\ S >= N
            /\ Len(st) = S - N + 1
            /\ st[Len(st)] = op.obj
            /\ SubSeq(st, 1, S - N) = SubSeq(op.st0, 1, S - N)

\* a node with two fields has been pushed over nodes it did not claim
C2_Witness ==
    /\ op.kind = "parse_proc" /\ op.phase = "done" /\ ev.kind = "push"
    /\ NumFields(op.obj) = 2
    /\ Len(st) >= 2

\* the member m can claim the top of the stack s
Claimable(m, s) == s # <<>> /\ DerivesFrom(type[s[Len(s)]], FieldType(m))

\* C3. Pointer-member claim: a claim from a stack whose top is compatible
\* with T succeeds, removes the top and nothing else, makes the member own
\* that very node, still allocated, and releases what the member owned.
C3_PointerMemberClaim ==
    (ev.kind = "claim" /\ Claimable(ev.m, ev.before)) =>
        /\ ev.outcome = "ok"
        /\ st = SubSeq(ev.before, 1, Len(ev.before) - 1)
        /\ ptr[ev.m[1]][ev.m[2]] = ev.before[Len(ev.before)]
        /\ alive[ev.before[Len(ev.before)]]
        /\ ev.old # NULL => ~alive[ev.old]

\* a member that owned a node has claimed another one
C3_Witness ==
    /\ ev.kind = "claim" /\ ev.outcome = "ok"
    /\ ev.old # NULL
    /\ Len(ev.before) >= 2

\* C4. Type-check failure: a claim from a stack whose top is unrelated to T
\* always ends in the construction error, the member keeps what it owned,
\* and the nodes below the top stay as they were.
C4_TypeCheckFailure ==
    (ev.kind = "claim" /\ ev.before # <<>> /\ ~Claimable(ev.m, ev.before)) =>
        /\ ev.outcome = "error"
        /\ status = "error"
        /\ ptr[ev.m[1]][ev.m[2]] = ev.old
        /\ Len(st) >= Len(ev.before) - 1
        /\ SubSeq(st, 1, Len(ev.before) - 1)
             = SubSeq(ev.before, 1, Len(ev.before) - 1)

\* a claim has failed on a stack with nodes below the top
C4_Witness ==
    /\ ev.kind = "claim" /\ ev.outcome = "error"
    /\ Len(ev.before) >= 2
    /\ ~Claimable(ev.m, ev.before)

\* C5 as claimed: when the claim fails on the type of the top node, the
\* stack has lost that node.
C5_AlreadyPopped ==
    (ev.kind = "claim" /\ ev.before # <<>> /\ ~Claimable(ev.m, ev.before)) =>
        Len(st) = Len(ev.before) - 1

\* C5. When the claim fails on the type of the top node, the stack is as
\* it was before the claim: the incompatible node is still its top.
C5_StackKeptOnThrow ==
    (ev.kind = "claim" /\ ev.before # <<>> /\ ~Claimable(ev.m, ev.before)) =>
        /\ status = "error"
        /\ st = ev.before

\* a claim has failed and the incompatible node is on top of the stack
C5_Witness ==
    /\ ev.kind = "claim" /\ status = "error"
    /\ st # <<>>
    /\ ~DerivesFrom(type[st[Len(st)]], FieldType(ev.m))

\* the ast_ptr fields of the allocated nodes
LiveMembers ==
    UNION {{<<n, i>> : i \in 1..Len(ptr[n])} : n \in {x \in NodeIds : alive[x]}}

\* no node is the pointee of two members of allocated nodes, and no node
\* the caller owns is the pointee of one
NoSharing ==
    /\ \A m1 \in LiveMembers : \A m2 \in LiveMembers :
          (m1 # m2 /\ ptr[m1[1]][m1[2]] # NULL) =>
              ptr[m1[1]][m1[2]] # ptr[m2[1]][m2[2]]
    /\ \A m \in LiveMembers : ptr[m[1]][m[2]] \notin held

\* the container whose field the owner's call in progress writes to
Written(o) ==
    IF o.kind \in {"assign", "assign_raw", "cassign"} THEN o.p[1] ELSE NULL

\* a step leaves every tree of the caller as it was, but the tree that
\* holds the field the step is assigning to
OthersUntouched ==
    \A h \in held :
        (alive[h] /\ Written(op') \notin Reach(h)) =>
            \A x \in Reach(h) :
                alive'[x] /\ ptr'[x] = ptr[x] /\ type'[x] = type[x]

\* C6. Deep-copy isolation: copies and assignments of containers and of
\* their pointer members never leave a node with two owners, and replacing
\* a child in one tree leaves every other tree, the original of a copy and
\* the copy of an original included, unchanged down to its leaves.
C6_DeepCopyIsolation == [][NoSharing' /\ OthersUntouched]_vars

\* a populated container has been copied, and a child of the copy replaced
C6_Witness ==
    /\ op.kind \in {"assign", "assign_raw"} /\ op.phase = "done"
    /\ \E o \in held : \E c \in held :
          /\ o < c /\ alive[o] /\ alive[c]
          /\ type[o] = "Pair" /\ type[c] = "Pair"
          /\ op.p[1] \in Reach(c)
          /\ \A i \in 1..2 : ptr[o][i] # NULL /\ ptr[c][i] # NULL

\* number of times the member m is in a member vector
Occurrences(mem, m) ==
    Cardinality({<<n, i>> \in NodeIds \X (1..3) :
                    i <= Len(mem[n]) /\ mem[n][i] = m})

\* the container on top of the registry when the member of a step
\* registered: a field built from an argument registers once the
\* constructor of the argument has left the registry
ActiveAtCtor ==
    IF Len(registry') < Len(registry) THEN Top(registry') ELSE Top(registry)

\* C7. Registration: a step that constructs a member, by default or by
\* copy, appends it once to the member vector of the container on top of
\* the registry and changes no other vector; every other step, the
\* assignment operators of members and containers included, changes no
\* member vector.
C7_Registration ==
    [][IF ev'.kind = "member_ctor"
       THEN /\ Occurrences(members, ev'.m) = 0
            /\ members' = [members EXCEPT ![ActiveAtCtor] = Append(@, ev'.m)]
       ELSE members' = members]_vars

\* a member has been copy-constructed in the course of an assignment
C7_Witness ==
    /\ ev.kind = "member_ctor"
    /\ op.kind \in {"assign", "assign_raw", "cassign"}
    /\ ctl # <<>> /\ Top(ctl).src # NULL
    /\ Occurrences(members, ev.m) = 1

\* C8. Registry reentrancy: the active container is always the one whose
\* constructor is running innermost, so that after a nested container is
\* complete the outer one is active again, and every member registers
\* with the container it is a field of.
C8_Reentrancy ==
    /\ ctl # <<>> => (registry # <<>> /\ Top(registry) = Top(ctl).node)
    /\ ev.kind = "member_ctor" => ev.node = ev.m[1]
    /\ \A n \in NodeIds : \A i \in 1..Len(members[n]) : members[n][i][1] = n

\* a field has registered after the container its predecessor owns was
\* copy-constructed
C8_Witness ==
    /\ ev.kind = "member_ctor"
    /\ ev.m[2] >= 2
    /\ ptr[ev.m[1]][ev.m[2] - 1] # NULL
    /\ Top(ctl).src # NULL
    /\ members[ev.m[1]][ev.m[2]] = ev.m

\* the constructor of the node n has returned
Completed(n) ==
    type[n] # "none" /\ \A i \in 1..Len(ctl) : ctl[i].node # n

\* C9. Member-list stability: no step changes the member vector of a
\* container whose construction is complete.
C9_MemberListStable ==
    [][\A n \in NodeIds : Completed(n) => members'[n] = members[n]]_vars

\* a container with two members has been assigned from another one
C9_Witness ==
    /\ op.kind = "cassign" /\ op.phase = "done"
    /\ op.obj # op.src
    /\ Len(members[op.obj]) = 2
    /\ members[op.obj] = <<<<op.obj, 1>>, <<op.obj, 2>>>>

\* C10 as claimed: whenever the root rule matches, the stack holds one node
\* at the end of the parse and the driver returns it.
C10_RootAlwaysSingle ==
    (parse.state = "done" /\ parse.matched) =>
        /\ Len(parse.final) = 1
        /\ parse.result = parse.final[1]

\* C10. When the root rule matches and the stack holds one node at the end
\* of the parse, the driver returns that node to the caller; when it holds
\* any other number of nodes the driver returns no node and the run ends
\* in the wiring error.
C10_RootReturned ==
    (parse.state = "done" /\ parse.matched) =>
        IF Len(parse.final) = 1
        THEN /\ parse.result = parse.final[1]
             /\ parse.result \in held
        ELSE /\ parse.result = NULL
             /\ status = "abort"

\* the root rule has matched and the driver has returned a populated root
C10_Witness ==
    /\ parse.state = "done" /\ parse.matched
    /\ parse.result # NULL
    /\ type[parse.result] = "Pair"
    /\ status = "run"

\* the node n is fully built: its constructor has returned and, when a
\* callback made it, the callback has pushed it
Built(n) ==
    /\ type[n] # "none"
    /\ \A i \in 1..Len(ctl) : ctl[i].node # n
    /\ ~(op.kind = "parse_proc" /\ op.phase # "done" /\ op.obj = n)

\* the places that hold the node n: entries of the stack and members of
\* allocated nodes
StackHolders(n) == {i \in 1..Len(st) : st[i] = n}

MemberHolders(n) == {m \in LiveMembers : ptr[m[1]][m[2]] = n}

\* C11. Ownership invariant of the stack: at every point of a parse every
\* built node that is allocated is held in exactly one place, one entry of
\* the stack or one member, never both and never two of either; the stack
\* holds exactly the built nodes no member has claimed, and no deleted node.
C11_StackOwnership ==
    parse.state = "running" =>
        /\ \A n \in NodeIds :
              (alive[n] /\ Built(n)) =>
                  Cardinality(StackHolders(n)) + Cardinality(MemberHolders(n)) = 1
        /\ \A i \in 1..Len(st) : alive[st[i]] /\ Built(st[i])
        /\ \A m \in LiveMembers :
              ptr[m[1]][m[2]] # NULL => alive[ptr[m[1]][m[2]]]

\* in the middle of a parse the stack holds a populated container over
\* another node, and the children of the container are off the stack
C11_Witness ==
    /\ parse.state = "running" /\ Idle
    /\ Len(st) >= 2
    /\ type[st[Len(st)]] = "Pair"
    /\ \A i \in 1..2 :
          /\ ptr[st[Len(st)]][i] # NULL
          /\ StackHolders(ptr[st[Len(st)]][i]) = {}

\* C12. Empty-container leaf: the callback of a node type with no field
\* never fails and leaves the stack as it found it up to the push, whatever
\* the stack holds, an empty stack included; the callback as a whole adds
\* the new node on top and nothing else.
C12_EmptyContainerLeaf ==
    (parse.state = "running" /\ op.kind = "parse_proc"
       /\ NumFields(op.obj) = 0) =>
        /\ status = "run"
        /\ members[op.obj] = <<>>
        /\ op.phase \in {"new", "construct"} => st = op.st0
        /\ op.phase = "done" => st = Append(op.st0, op.obj)

\* a node without fields has been reconstructed on an empty stack and
\* pushed
C12_Witness ==
    /\ parse.state = "running"
    /\ op.kind = "parse_proc" /\ op.phase = "done" /\ ev.kind = "push"
    /\ NumFields(op.obj) = 0
    /\ op.st0 = <<>>
    /\ st = <<op.obj>>

\* C13. Grammar-match failure: when the root rule has not matched, the
\* driver returns null, the caller is handed no node, whatever the stack
\* held, and the error list holds the errors.
C13_MatchFailure ==
    (parse.state = "done" /\ ~parse.matched) =>
        /\ parse.result = NULL
        /\ held = {}
        /\ parse.errors

\* the root rule has failed with one node on the stack
C13_Witness ==
    /\ parse.state = "done" /\ ~parse.matched
    /\ Len(parse.final) = 1
    /\ parse.result = NULL
    /\ parse.errors

\* the fields of the node n, in declaration order
OwnFields(n) == [i \in 1..NumFields(n) |-> <<n, i>>]

\* C14. Copy construction regenerates the member list: when the copy
\* constructor of a container with N fields has returned, the member vector
\* of the copy is its own N fields in declaration order, with no field of
\* the source or of a cloned child among them; the same holds for every
\* clone below it, and the vector of the source is as it was.
C14_CopyRegeneratesMembers ==
    (op.kind = "copy" /\ op.phase = "done") =>
        /\ \A n \in Reach(op.obj) : members[n] = OwnFields(n)
        /\ Len(members[op.obj]) = NumFields(op.src)
        /\ members[op.src] = OwnFields(op.src)

\* a container with two fields has been copied, its first field owning a
\* container that owns a node
C14_Witness ==
    /\ op.kind = "copy" /\ op.phase = "done"
    /\ type[op.src] = "Pair"
    /\ ptr[op.src][1] # NULL /\ ptr[ptr[op.src][1]][1] # NULL
    /\ ptr[op.obj][1] # NULL /\ ptr[ptr[op.obj][1]][1] # NULL
    /\ ptr[op.obj][1] # ptr[op.src][1]
    /\ members[op.obj] = <<<<op.obj, 1>>, <<op.obj, 2>>>>

\* the tree under b is a deep copy of the tree under a: node for node the
\* same fields, each node of the type of the original or of the base class
\* the member that cloned it declares
RECURSIVE SameTree(_, _)
SameTree(a, b) ==
    IF a = NULL \/ b = NULL
    THEN a = b
    ELSE /\ DerivesFrom(type[a], type[b])
         /\ Len(ptr[a]) = Len(ptr[b])
         /\ \A i \in 1..Len(ptr[a]) : SameTree(ptr[a][i], ptr[b][i])

\* the nodes of the tree under n are all allocated
LiveTree(n) == \A x \in Reach(n) : alive[x]

\* C15 as claimed: for every pair of members p and q, p and q the same
\* member included, p = q never fails and reads no released node: q and the
\* node it owns are allocated when the assignment reads them; the node p
\* owned is released; afterwards p owns an allocated deep copy of what q
\* owned, or nothing when q owned nothing, and q owns an allocated tree
\* equal to the one it owned before.
C15_AssignAnyPair ==
    op.kind = "assign" =>
        /\ status = "run"
        /\ alive[op.q[1]]
        /\ (ev.kind = "assign" /\ ev.node # NULL) => LiveTree(ev.node)
        /\ (ev.kind = "assign" /\ ev.old # NULL) => ~alive[ev.old]
        /\ op.phase = "done" =>
              LET pv == ptr[op.p[1]][op.p[2]]
                  qv == ptr[op.q[1]][op.q[2]]
              IN  /\ pv = NULL <=> op.src = NULL
                  /\ LiveTree(pv) /\ LiveTree(qv)
                  /\ SameTree(op.src, pv) /\ SameTree(op.src, qv)
                  /\ op.p # op.q => (pv # qv \/ pv = NULL)

\* C16 as claimed: a member constructed from a T * or assigned one never
\* owns the node it was given.
C16_RawNeverAliases ==
    /\ (ev.kind = "member_ctor" /\ ev.raw # NULL) =>
          ptr[ev.m[1]][ev.m[2]] # ev.raw
    /\ (op.kind = "assign_raw" /\ op.phase = "done" /\ op.src # NULL) =>
          ptr[op.p[1]][op.p[2]] # op.src

\* C16. A member assigned a T * never owns the node it was given: when the
\* assignment is over it owns a newly allocated node that no other member
\* owns, or nothing when it was given null.  A member constructed from a
\* T * owns that very node, which is not cloned.
C16_RawAssignClonesCtorAdopts ==
    /\ (ev.kind = "member_ctor" /\ ev.raw # NULL) =>
          /\ ptr[ev.m[1]][ev.m[2]] = ev.raw
          /\ alive[ev.raw]
          /\ MemberHolders(ev.raw) = {ev.m}
    /\ (op.kind = "assign_raw" /\ op.phase = "done") =>
          LET pv == ptr[op.p[1]][op.p[2]]
          IN  /\ pv = NULL <=> op.src = NULL
              /\ pv # NULL =>
                    /\ pv # op.src
                    /\ alive[pv]
                    /\ MemberHolders(pv) = {op.p}
                    /\ pv \notin held

\* a field of a node whose constructor built a field from new D has been
\* assigned a T * and owns a node of its own
C16_Witness ==
    /\ op.kind = "assign_raw" /\ op.phase = "done"
    /\ type[op.p[1]] = "Tri"
    /\ op.src # NULL /\ alive[op.src]
    /\ ptr[op.p[1]][op.p[2]] \notin {NULL, op.src}
    /\ MemberHolders(op.src) # {}

\* C17. Partial consumption on failure: when the k-th claim of the callback
\* of a node with N fields, in reverse declaration order, is the first to
\* meet a node of the wrong type, then as the error is raised the stack is
\* the one the callback started with less its top k-1 nodes, which the last
\* k-1 declared fields own in order; the incompatible node is its top; the
\* first N-k+1 declared fields own what they owned when the claims began,
\* still allocated.
C17_PartialConsumption ==
    (status = "error" /\ op.kind = "parse_proc" /\ ev.kind = "claim"
       /\ st # <<>>) =>
        LET N == NumFields(op.obj)
            S == Len(op.st0)
            k == op.it
        IN  /\ op.phase = "construct"
            /\ 1 <= k /\ k <= N /\ k <= S
            /\ st = SubSeq(op.st0, 1, S - (k - 1))
            /\ ~DerivesFrom(type[st[Len(st)]], Fields(type[op.obj])[N + 1 - k])
            /\ \A i \in (N - k + 2)..N :
                  /\ ptr[op.obj][i] = op.st0[S - (N - i)]
                  /\ alive[ptr[op.obj][i]]
            /\ \A i \in 1..(N - k + 1) :
                  /\ ptr[op.obj][i] = op.f0[i]
                  /\ LiveTree(ptr[op.obj][i])

\* the second claim of a node with three fields has failed: the last field
\* owns the node that was on top, the field that failed still owns the node
\* its constructor gave it, and nodes are left on the stack
C17_Witness ==
    /\ status = "error" /\ op.kind = "parse_proc" /\ ev.kind = "claim"
    /\ NumFields(op.obj) = 3 /\ op.it = 2
    /\ Len(op.st0) >= 3 /\ Len(st) = Len(op.st0) - 1
    /\ ptr[op.obj][3] = op.st0[Len(op.st0)]
    /\ ptr[op.obj][2] # NULL /\ ptr[op.obj][2] = op.f0[2]

\* the nodes that can be reached from the stack
StackReach == UNION {Reach(st[i]) : i \in 1..Len(st)}

\* C18 as claimed: once a claim has failed on the type of the top node and
\* the error has left the callback, every node ever allocated, the
\* incompatible node and the node the callback created included, is
\* released or is held by exactly one owner that can be reached from the
\* stack; none is allocated without an owner.
C18_NoNodeLost ==
    (status = "error" /\ op.kind = "parse_proc" /\ op.phase = "unwound"
       /\ st # <<>>) =>
        \A n \in NodeIds :
            (type[n] # "none" /\ alive[n]) =>
                /\ n \in StackReach
                /\ Cardinality(StackHolders(n))
                     + Cardinality(MemberHolders(n)) = 1

====
